---- MODULE Spec2Model ----
(***************************************************************************)
(* Model of FramesPerSecond::FPSEstimator (fps.h): a history of sample     *)
(* time points, a rolling weighted average, a decay factor and the two     *)
(* function-local static clean-up counters of FPS().                       *)
(*                                                                         *)
(* Time points are whole ticks of the steady clock; one tick is TickNanos  *)
(* nanoseconds.  float values are modelled as exact fractions <<n, d>>     *)
(* in lowest terms with d > 0, extended with the IEEE-754 specials         *)
(* NaN = <<0, 0>>, +Inf = <<1, 0>> and -Inf = <<-1, 0>>: the model keeps   *)
(* the structure of the float arithmetic (0/0, x/0, NaN propagation) and   *)
(* abstracts from rounding.                                                *)
(***************************************************************************)
EXTENDS Integers, Sequences, FiniteSets, TLC

(***************************************************************************)
(* Bounds of the model.                                                    *)
(***************************************************************************)
\* last tick of the steady clock
MaxTime == 2
\* AddSample is not called once history holds this many samples
MaxSamples == MaxTime + 2
\* number of FPS calls in one behaviour
MaxQueries == 2

\* one tick of the steady clock is 100 ms
TickNanos == 100 * 1000 * 1000

(***************************************************************************)
(* float arithmetic                                                        *)
(***************************************************************************)
Abs(n) == IF n < 0 THEN -n ELSE n

RECURSIVE Gcd(_, _)
Gcd(a, b) == IF b = 0 THEN a ELSE Gcd(b, a % b)

Sign(n) == IF n > 0 THEN 1 ELSE IF n < 0 THEN -1 ELSE 0

\* the float n/d: lowest terms, d > 0; x/0 is +-Inf and 0/0 is NaN
Frac(n, d) ==
  IF d = 0 THEN <<Sign(n), 0>>
  ELSE LET g == Gcd(Abs(n), Abs(d))
           s == IF d < 0 THEN -1 ELSE 1
       IN  <<(s * n) \div g, (s * d) \div g>>

FNaN == <<0, 0>>
FInt(n) == <<n, 1>>
IsNaN(x) == x = FNaN
IsInf(x) == x[2] = 0 /\ x[1] # 0
IsFinite(x) == x[2] # 0

FNeg(x) == <<-x[1], x[2]>>

FMul(x, y) ==
  IF IsNaN(x) \/ IsNaN(y) THEN FNaN
  ELSE IF IsInf(x) \/ IsInf(y) THEN <<Sign(x[1]) * Sign(y[1]), 0>>
  ELSE Frac(x[1] * y[1], x[2] * y[2])

FAdd(x, y) ==
  IF IsNaN(x) \/ IsNaN(y) THEN FNaN
  ELSE IF IsInf(x) /\ IsInf(y) THEN (IF x = y THEN x ELSE FNaN)
  ELSE IF IsInf(x) THEN x
  ELSE IF IsInf(y) THEN y
  ELSE Frac(x[1] * y[2] + y[1] * x[2], x[2] * y[2])

FSub(x, y) == FAdd(x, FNeg(y))

FDiv(x, y) ==
  IF IsNaN(x) \/ IsNaN(y) THEN FNaN
  ELSE IF IsInf(x) /\ IsInf(y) THEN FNaN
  ELSE IF IsInf(x) THEN <<Sign(x[1]) * (IF y[1] < 0 THEN -1 ELSE 1), 0>>
  ELSE IF IsInf(y) THEN FInt(0)
  ELSE Frac(x[1] * y[2], x[2] * y[1])

\* x >= y on floats: false as soon as one side is NaN
FGeq(x, y) ==
  IF IsNaN(x) \/ IsNaN(y) THEN FALSE
  ELSE IF IsInf(x) THEN x[1] > 0 \/ x = y
  ELSE IF IsInf(y) THEN y[1] < 0
  ELSE x[1] * y[2] >= y[1] * x[2]

FLess(x, y) == ~IsNaN(x) /\ ~IsNaN(y) /\ ~FGeq(x, y)


(***************************************************************************)
(* Program constants                                                       *)
(***************************************************************************)
\* enum EstimationMethod
CountSamples == 0
AverageIntervals == 1
\* an enumerator value outside the enum
UnknownMethod == 2
\* every CleanupPeriod-th pass of a method's clean-up block erases
CleanupPeriod == 1000
\* divisor of NanosecondsBetween (1e3f)
NsDivisor == 1000
\* factor of the scan threshold and numerator of fps_estimate (1e6f)
WindowScale == 1000000

\* return -1.f
Sentinel == FInt(-1)
\* placeholder of the return value of a call that returns nothing
NoValue == <<0, -1>>

(***************************************************************************)
(* Inputs                                                                  *)
(***************************************************************************)
\* window_seconds: 0.1 s (a whole number of ticks) and 0.15 s
Windows == {Frac(1, 10), Frac(3, 20)}
\* new_decay_factor
DecayFactors == {FInt(0), Frac(1, 2)}
Methods == {CountSamples, AverageIntervals, UnknownMethod}
\* values the function-local statics hold when the estimator is built (they
\* belong to the process, not to the estimator): a fresh process, and one whose
\* earlier estimators left both clean-up blocks one pass short of erasing
StartCleanup == {0, CleanupPeriod - 1}
\* what a read before the first element of the vector may yield
GarbageTimes == {0, MaxTime}

(***************************************************************************)
(* State                                                                   *)
(***************************************************************************)
VARIABLES
  m_sample_times,             \* std::vector<TIME_POINT_T>, oldest first
  m_rolling,                  \* float
  m_decay_factor,             \* float
  cleanup_CountSamples,       \* static int cleanup of case CountSamples
  cleanup_AverageIntervals,   \* static int cleanup of case AverageIntervals
  clock,                      \* reading of std::chrono::steady_clock
  nqueries,                   \* FPS calls made so far
  call,                       \* the call that has just returned, if any
  pre                         \* the estimator as that call found it

\* State of the two finer views of the program: several estimators of one
\* process (successes, returned) and several threads on one estimator (th, mutex)
VARIABLES
  successes,                  \* per estimator: successful FPS calls since its
                              \* construction or its last erase
  returned,                   \* the FPS call that has just returned, in brief
  th,                         \* per thread: where it is in its call, its locals
  mutex                       \* m_sample_times__mutex: its holder, or "free"

vars == <<m_sample_times, m_rolling, m_decay_factor, cleanup_CountSamples,
          cleanup_AverageIntervals, clock, nqueries, call, pre,
          successes, returned, th, mutex>>

\* what the calls of one thread on one estimator leave alone
views == <<successes, returned, th, mutex>>

Estimator == [m_sample_times |-> m_sample_times,
              m_rolling |-> m_rolling,
              m_decay_factor |-> m_decay_factor,
              cleanup_CountSamples |-> cleanup_CountSamples,
              cleanup_AverageIntervals |-> cleanup_AverageIntervals]

NoCall == [op |-> "none", window_seconds |-> NoValue, soft_estimate |-> FALSE,
           method |-> CountSamples, now |-> 0, i |-> 0, samples |-> 0,
           ret |-> NoValue, outcome |-> "return"]

\* the estimators of one process: the one under study and another one
Estimators == {"fps", "other"}

\* the threads that call the estimator
Threads == {"t1", "t2"}

\* no FPS call has returned yet
NoQuery == [estimator |-> "fps", succeeded |-> FALSE, erased |-> FALSE,
            count |-> 0]

\* a thread between two calls; the fields after pc are the locals of the call:
\* method and window_seconds of FPS, now, i, samples, youngest_sample, the
\* estimate of the window, and the values loaded from cleanup, m_decay_factor
\* and m_rolling before the new value is stored; top is the last index of
\* history when the scan took the lock.  A local is put back to its value
\* here once the call has no further use for it.
Idle == [pc |-> "idle", method |-> CountSamples, window_seconds |-> NoValue,
         now |-> 0, i |-> 0, samples |-> 0, youngest_sample |-> 0,
         fps_estimate |-> NoValue, cleanup |-> 0, decay |-> NoValue,
         rolling |-> NoValue, top |-> 0]

\* Now(): the current time point
Now == clock

\* NanosecondsBetween(end, start)
NanosecondsBetween(end, start) ==
  FDiv(FInt((end - start) * TickNanos), FInt(NsDivisor))

\* m_sample_times[i], i counted from 0 as in the source
At(times, i) == times[i + 1]

\* the test that ends the backward scan at index i
OutOfWindow(times, now, window_seconds, i) ==
  FGeq(NanosecondsBetween(now, At(times, i)),
       FMul(window_seconds, FInt(WindowScale)))

\* for (; i >= 0; --i) { if (...) break; ++samples; }: the values of i and
\* samples the loop ends with
RECURSIVE Scan(_, _, _, _, _)
Scan(times, now, window_seconds, i, samples) ==
  IF i >= 0 /\ ~OutOfWindow(times, now, window_seconds, i)
  THEN Scan(times, now, window_seconds, i - 1, samples + 1)
  ELSE [i |-> i, samples |-> samples]

\* if (i <= 0) return -1.f;   (case CountSamples)
CountSamplesFails(i) == i <= 0

\* mutant: the failure test of case CountSamples copied to AverageIntervals
AverageIntervalsFails_AsCountSamples(i) == i <= 0

\* if (i < 0) return -1.f;    (case AverageIntervals)
AverageIntervalsFails(i) == i < 0

\* samples/window_seconds
CountEstimate(samples, window_seconds) == FDiv(FInt(samples), window_seconds)

\* mutant: the interval measured from the oldest in-window sample
AverageInterval_FromOldestInWindow(times, youngest_sample, i, samples) ==
  FDiv(NanosecondsBetween(youngest_sample,
                          IF i + 1 < Len(times) THEN At(times, i + 1)
                          ELSE youngest_sample),
       FInt(samples))

\* average_interval
AverageInterval(times, youngest_sample, i, samples) ==
  FDiv(NanosecondsBetween(youngest_sample, At(times, i)), FInt(samples))

\* fps_estimate
FpsEstimate(average_interval) == FDiv(FInt(WindowScale), average_interval)

\* m_decay_factor * m_rolling + (1.f-m_decay_factor) * samples/window_seconds
RollingCountSamples(decay, rolling, samples, window_seconds) ==
  FAdd(FMul(decay, rolling),
       FDiv(FMul(FSub(FInt(1), decay), FInt(samples)), window_seconds))

\* m_decay_factor * m_rolling + (1.f-m_decay_factor) * fps_estimate
RollingAverageIntervals(decay, rolling, fps_estimate) ==
  FAdd(FMul(decay, rolling), FMul(FSub(FInt(1), decay), fps_estimate))

\* if (++cleanup >= 1000): does this pass of the clean-up block erase?
CleanupFires(cleanup) == cleanup + 1 >= CleanupPeriod

\* the static after the clean-up block
CleanupNext(cleanup) == IF CleanupFires(cleanup) THEN 0 ELSE cleanup + 1

\* m_sample_times.erase(begin(), begin()+i-1) with i >= 1: drops indices 0..i-2
Erase(times, i) == SubSeq(times, i, Len(times))

\* The same erase with i = 0 is erase(begin(), begin()-1), undefined behaviour:
\* the call may leave the vector alone or shift it up by one behind an element
\* read from before the buffer (what libstdc++'s move-then-shrink does)
EraseUndefined(times) ==
  {times} \cup {<<g>> \o times : g \in GarbageTimes}

(***************************************************************************)
(* FPS(window_seconds, soft_estimate, method): what one call does to the   *)
(* estimator and what it returns.  A result names the estimator after the  *)
(* call, the locals i and samples the scan ended with, the returned value  *)
(* and how the call ended: "return", "throw" (std::runtime_error) or       *)
(* "crash" (the process died in undefined behaviour).                      *)
(***************************************************************************)
Result(times, rolling, cleanupC, cleanupA, i, samples, ret, outcome) ==
  [m_sample_times |-> times, m_rolling |-> rolling,
   cleanup_CountSamples |-> cleanupC, cleanup_AverageIntervals |-> cleanupA,
   i |-> i, samples |-> samples, ret |-> ret, outcome |-> outcome]

\* mutant: the clean-up pass is counted before the failure test
Untouched_CountsPass(i, samples, ret, outcome) ==
  Result(m_sample_times, m_rolling, CleanupNext(cleanup_CountSamples),
         cleanup_AverageIntervals, i, samples, ret, outcome)

\* mutant: a failed query restarts the rolling average
Untouched_RestartsRolling(i, samples, ret, outcome) ==
  Result(m_sample_times, FInt(0), cleanup_CountSamples,
         cleanup_AverageIntervals, i, samples, ret, outcome)

\* an exit that leaves the estimator as it is
Untouched(i, samples, ret, outcome) ==
  Result(m_sample_times, m_rolling, cleanup_CountSamples,
         cleanup_AverageIntervals, i, samples, ret, outcome)

\* if (m_sample_times.size() <= 0) return -1.f;
EmptyHistory == Len(m_sample_times) <= 0

\* case CountSamples
FPS_CountSamples(window_seconds, soft_estimate) ==
  LET sc == Scan(m_sample_times, Now, window_seconds,
                 Len(m_sample_times) - 1, 0)
      fires == CleanupFires(cleanup_CountSamples)
      times1 == IF fires THEN Erase(m_sample_times, sc.i) ELSE m_sample_times
      rolling1 == RollingCountSamples(m_decay_factor, m_rolling, sc.samples,
                                      window_seconds)
      ret == IF soft_estimate THEN rolling1
             ELSE CountEstimate(sc.samples, window_seconds)
  IN  IF CountSamplesFails(sc.i)
      THEN {Untouched(sc.i, sc.samples, Sentinel, "return")}
      ELSE {Result(times1, rolling1, CleanupNext(cleanup_CountSamples),
                   cleanup_AverageIntervals, sc.i, sc.samples, ret, "return")}

\* case AverageIntervals
FPS_AverageIntervals(window_seconds, soft_estimate) ==
  LET last == Len(m_sample_times) - 1
      youngest_sample == At(m_sample_times, last)
      sc == Scan(m_sample_times, Now, window_seconds, last, 0)
      average_interval == AverageInterval(m_sample_times, youngest_sample,
                                          sc.i, sc.samples)
      fps_estimate == FpsEstimate(average_interval)
      fires == CleanupFires(cleanup_AverageIntervals)
      rolling1 == RollingAverageIntervals(m_decay_factor, m_rolling,
                                          fps_estimate)
      ret == IF soft_estimate THEN rolling1 ELSE fps_estimate
      done(times1) ==
        Result(times1, rolling1, cleanup_CountSamples,
               CleanupNext(cleanup_AverageIntervals), sc.i, sc.samples, ret,
               "return")
  IN  IF AverageIntervalsFails(sc.i)
      THEN {Untouched(sc.i, sc.samples, Sentinel, "return")}
      ELSE IF fires /\ sc.i = 0
      THEN {Result(m_sample_times, m_rolling, cleanup_CountSamples, 0, sc.i,
                   sc.samples, NoValue, "crash")}
           \cup {done(t) : t \in EraseUndefined(m_sample_times)}
      ELSE IF fires
      THEN {done(Erase(m_sample_times, sc.i))}
      ELSE {done(m_sample_times)}

\* default: throw std::runtime_error(...)
FPS_Default == {Untouched(0, 0, NoValue, "throw")}

FPSResults(window_seconds, soft_estimate, method) ==
  IF EmptyHistory THEN {Untouched(0, 0, Sentinel, "return")}
  ELSE IF method = CountSamples
  THEN FPS_CountSamples(window_seconds, soft_estimate)
  ELSE IF method = AverageIntervals
  THEN FPS_AverageIntervals(window_seconds, soft_estimate)
  ELSE FPS_Default

(***************************************************************************)
(* Operations                                                              *)
(***************************************************************************)
\* the process is alive: no call has crashed it
Alive == call.outcome # "crash"

\* FPSEstimator::FPSEstimator(), the statics being whatever the process left
Init ==
  /\ m_sample_times = <<>>
  /\ m_rolling = FInt(0)
  /\ m_decay_factor = FInt(0)
  /\ cleanup_CountSamples \in StartCleanup
  /\ cleanup_AverageIntervals = cleanup_CountSamples
  /\ clock = 0
  /\ nqueries = 0
  /\ call = NoCall
  /\ pre = Estimator
  /\ successes = [e \in Estimators |-> 0]
  /\ returned = NoQuery
  /\ th = [t \in Threads |-> Idle]
  /\ mutex = "free"

\* the steady clock advances between two calls
Tick ==
  /\ Alive
  /\ UNCHANGED views
  /\ clock < MaxTime
  /\ clock' = clock + 1
  /\ call' = NoCall
  /\ pre' = Estimator
  /\ UNCHANGED <<m_sample_times, m_rolling, m_decay_factor,
                 cleanup_CountSamples, cleanup_AverageIntervals, nqueries>>

SetDecayFactor(new_decay_factor) ==
  /\ Alive
  /\ UNCHANGED views
  /\ m_decay_factor' = new_decay_factor
  /\ call' = [NoCall EXCEPT !.op = "SetDecayFactor"]
  /\ pre' = Estimator
  /\ UNCHANGED <<m_sample_times, m_rolling, cleanup_CountSamples,
                 cleanup_AverageIntervals, clock, nqueries>>

\* m_sample_times.push_back(now)
PushBack(times, now) == Append(times, now)

AddSample ==
  /\ Alive
  /\ UNCHANGED views
  /\ Len(m_sample_times) < MaxSamples
  /\ m_sample_times' = PushBack(m_sample_times, Now)
  /\ call' = [NoCall EXCEPT !.op = "AddSample"]
  /\ pre' = Estimator
  /\ UNCHANGED <<m_rolling, m_decay_factor, cleanup_CountSamples,
                 cleanup_AverageIntervals, clock, nqueries>>

\* m_sample_times.clear()
Clear(times) == <<>>

\* mutant: Reset restarts the rolling average too
Reset_RestartsRolling ==
  /\ Alive
  /\ UNCHANGED views
  /\ m_sample_times' = Clear(m_sample_times)
  /\ m_rolling' = FInt(0)
  /\ call' = [NoCall EXCEPT !.op = "Reset"]
  /\ pre' = Estimator
  /\ UNCHANGED <<m_decay_factor, cleanup_CountSamples,
                 cleanup_AverageIntervals, clock, nqueries>>

Reset ==
  /\ Alive
  /\ UNCHANGED views
  /\ m_sample_times' = Clear(m_sample_times)
  /\ call' = [NoCall EXCEPT !.op = "Reset"]
  /\ pre' = Estimator
  /\ UNCHANGED <<m_rolling, m_decay_factor, cleanup_CountSamples,
                 cleanup_AverageIntervals, clock, nqueries>>

FPS(window_seconds, soft_estimate, method) ==
  /\ Alive
  /\ UNCHANGED views
  /\ nqueries < MaxQueries
  /\ \E r \in FPSResults(window_seconds, soft_estimate, method) :
       /\ m_sample_times' = r.m_sample_times
       /\ m_rolling' = r.m_rolling
       /\ cleanup_CountSamples' = r.cleanup_CountSamples
       /\ cleanup_AverageIntervals' = r.cleanup_AverageIntervals
       /\ call' = [op |-> "FPS", window_seconds |-> window_seconds,
                   soft_estimate |-> soft_estimate, method |-> method,
                   now |-> Now, i |-> r.i, samples |-> r.samples,
                   ret |-> r.ret, outcome |-> r.outcome]
  /\ nqueries' = nqueries + 1
  /\ pre' = Estimator
  /\ UNCHANGED <<m_decay_factor, clock>>

Next ==
  \/ Tick
  \/ \E d \in DecayFactors : SetDecayFactor(d)
  \/ AddSample
  \/ Reset
  \/ \E w \in Windows, soft \in BOOLEAN, method \in Methods : FPS(w, soft, method)

Spec == Init /\ [][Next]_vars

(***************************************************************************)
(* Vocabulary of the properties.  History is kept in chronological order,  *)
(* so the in-window samples of a query are the run of samples at the       *)
(* recent end of history whose age is below window_seconds.                *)
(***************************************************************************)
NanosPerSecond == 1000 * 1000 * 1000

\* age in seconds, at time now, of a sample taken at time t
AgeSeconds(now, t) == Frac((now - t) * TickNanos, NanosPerSecond)

\* the k-th sample of times (counted from 1) is younger than window_seconds
InWindow(times, now, window_seconds, k) ==
  FLess(AgeSeconds(now, times[k]), window_seconds)

\* number of in-window samples
InWindowCount(times, now, window_seconds) ==
  CHOOSE n \in 0..Len(times) :
    /\ \A k \in (Len(times) - n + 1)..Len(times) :
         InWindow(times, now, window_seconds, k)
    /\ n < Len(times) =>
         ~InWindow(times, now, window_seconds, Len(times) - n)

\* the backward scan meets a sample that is not in the window
FoundOutOfWindow(times, now, window_seconds) ==
  InWindowCount(times, now, window_seconds) < Len(times)

\* decay * rolling + (1 - decay) * instantaneous
Smoothed(decay, rolling, instantaneous) ==
  FAdd(FMul(decay, rolling), FMul(FSub(FInt(1), decay), instantaneous))

\* samples per second when `count` intervals span `ticks` ticks
RateOver(count, ticks) ==
  FDiv(FInt(1), FDiv(Frac(ticks * TickNanos, NanosPerSecond), FInt(count)))

IsNegative(x) == x[2] > 0 /\ x[1] < 0

Query == call.op = "FPS"
QueryOf(method) == Query /\ call.method = method
KnownMethod == call.method \in {CountSamples, AverageIntervals}
\* the call returned a value that is not the sentinel
Succeeded == Query /\ call.outcome = "return" /\ call.ret # Sentinel
\* the call returned the sentinel
Insufficient == Query /\ call.outcome = "return" /\ call.ret = Sentinel
PreCount == InWindowCount(pre.m_sample_times, call.now, call.window_seconds)
RollingUnchanged == m_rolling = pre.m_rolling
HistoryUnchanged == m_sample_times = pre.m_sample_times
CleanupUnchanged ==
  /\ cleanup_CountSamples = pre.cleanup_CountSamples
  /\ cleanup_AverageIntervals = pre.cleanup_AverageIntervals

(***************************************************************************)
(* C1: FPS on an estimator whose history is empty returns the negative     *)
(* sentinel, for either estimation method, every window and either value   *)
(* of soft_estimate, and leaves history, the rolling estimate and the      *)
(* clean-up counters as they were.                                         *)
(***************************************************************************)
C1_EmptyHistoryInsufficient ==
  (Query /\ KnownMethod /\ pre.m_sample_times = <<>>) =>
    /\ call.outcome = "return"
    /\ IsNegative(call.ret)
    /\ call.ret = Sentinel
    /\ HistoryUnchanged
    /\ RollingUnchanged
    /\ CleanupUnchanged

\* a soft AverageIntervals query on a history that Reset emptied after an
\* earlier query had set the rolling estimate
C1_Witness ==
  /\ QueryOf(AverageIntervals)
  /\ call.soft_estimate
  /\ pre.m_sample_times = <<>>
  /\ pre.m_rolling # FInt(0)
  /\ Insufficient

(***************************************************************************)
(* C2: a CountSamples query succeeds whenever the backward scan finds a    *)
(* sample whose age is at least window_seconds, at any position of history *)
(* (the oldest entry included), and then returns k / window_seconds, k     *)
(* being the number of in-window samples.                                  *)
(***************************************************************************)
C2_CountSamplesSucceeds ==
  (/\ QueryOf(CountSamples)
   /\ pre.m_sample_times # <<>>
   /\ FoundOutOfWindow(pre.m_sample_times, call.now, call.window_seconds)) =>
    /\ Succeeded
    /\ ~call.soft_estimate =>
         call.ret = FDiv(FInt(PreCount), call.window_seconds)

(***************************************************************************)
(* C3: with exactly one sample in history FPS returns the sentinel, for    *)
(* every window and both methods, whether the sample is inside or outside  *)
(* the window.                                                             *)
(***************************************************************************)
C3_SingleSampleInsufficient ==
  (Query /\ KnownMethod /\ Len(pre.m_sample_times) = 1) => Insufficient

(***************************************************************************)
(* C4: an AverageIntervals query with no sample inside the window (the     *)
(* most recent sample is already older than window_seconds) returns the    *)
(* sentinel and does not update the rolling estimate: no division by a     *)
(* sample count of zero is made.                                           *)
(***************************************************************************)
C4_ZeroInWindowInsufficient ==
  (/\ QueryOf(AverageIntervals)
   /\ pre.m_sample_times # <<>>
   /\ PreCount = 0) =>
    /\ Insufficient
    /\ RollingUnchanged
    /\ ~IsNaN(m_rolling) \/ IsNaN(pre.m_rolling)

C6_FromOldestInWindow ==
  (/\ QueryOf(AverageIntervals)
   /\ Succeeded
   /\ ~call.soft_estimate
   /\ PreCount >= 1) =>
    LET times == pre.m_sample_times
        n == Len(times)
    IN  call.ret = RateOver(PreCount, times[n] - times[n - PreCount + 1])

(***************************************************************************)
(* C6 as amended: on a successful AverageIntervals query the average       *)
(* interval is the time from the sample just outside the window (the one   *)
(* the backward scan stopped at) to the most recent sample, divided by the *)
(* number of in-window samples, and the returned instantaneous rate is its *)
(* inverse.                                                                *)
(***************************************************************************)
C6_FromSampleBeforeWindow ==
  (/\ QueryOf(AverageIntervals)
   /\ Succeeded
   /\ ~call.soft_estimate) =>
    LET times == pre.m_sample_times
        n == Len(times)
    IN  /\ PreCount < n
        /\ call.ret = RateOver(PreCount, times[n] - times[n - PreCount])

\* a rate over two or more in-window samples and the sample before them
C6_Witness ==
  /\ QueryOf(AverageIntervals)
  /\ Succeeded
  /\ ~call.soft_estimate
  /\ PreCount >= 2
  /\ pre.m_sample_times[Len(pre.m_sample_times)]
       # pre.m_sample_times[Len(pre.m_sample_times) - 1]

(***************************************************************************)
(* C7: the rolling estimate changes only in a successful FPS call: an FPS  *)
(* call that returns the sentinel, and every AddSample, SetDecayFactor and *)
(* Reset call, leaves it exactly as it was.  (Decay factors range over the *)
(* documented [0, 1], where a successful call never returns a negative     *)
(* value.)                                                                 *)
(***************************************************************************)
C7_RollingOnlyOnSuccess ==
  (\/ Insufficient
   \/ call.op \in {"AddSample", "SetDecayFactor", "Reset"}) =>
    RollingUnchanged

\* a query fails on a non-empty history after an earlier query has set the
\* rolling estimate to a rate
C7_Witness ==
  /\ Insufficient
  /\ KnownMethod
  /\ pre.m_sample_times # <<>>
  /\ IsFinite(pre.m_rolling)
  /\ pre.m_rolling # FInt(0)
  /\ m_decay_factor # FInt(0)

\* the instantaneous estimate of the call that has just returned
Instantaneous ==
  IF call.method = CountSamples
  THEN FDiv(FInt(PreCount), call.window_seconds)
  ELSE LET times == pre.m_sample_times
       IN  RateOver(PreCount, times[Len(times)] - times[Len(times) - PreCount])

(***************************************************************************)
(* C8: every successful FPS call sets the rolling estimate to              *)
(* decay_factor * rolling_old + (1 - decay_factor) * instantaneous and     *)
(* returns the rolling estimate when soft_estimate is set and the          *)
(* instantaneous estimate otherwise; so with decay_factor = 0 a soft query *)
(* returns exactly what the non-soft query returns.                        *)
(***************************************************************************)
C8_RollingUpdate ==
  (Succeeded /\ KnownMethod) =>
    /\ m_rolling = Smoothed(m_decay_factor, pre.m_rolling, Instantaneous)
    /\ call.ret = IF call.soft_estimate THEN m_rolling ELSE Instantaneous
    /\ m_decay_factor = FInt(0) => call.ret = Instantaneous

(***************************************************************************)
(* C9: Reset empties history and changes neither the decay factor nor the  *)
(* rolling estimate; a second Reset changes nothing more; and as long as   *)
(* no AddSample follows (history is still empty) every FPS call, whatever  *)
(* its window, method and soft flag, returns the sentinel.                 *)
(***************************************************************************)
C9_Reset ==
  /\ call.op = "Reset" =>
       /\ m_sample_times = <<>>
       /\ m_decay_factor = pre.m_decay_factor
       /\ RollingUnchanged
       /\ CleanupUnchanged
       /\ Clear(m_sample_times) = m_sample_times
  /\ m_sample_times = <<>> =>
       \A w \in Windows, soft \in BOOLEAN, method \in Methods :
         \A r \in FPSResults(w, soft, method) :
           /\ r.outcome = "return"
           /\ r.ret = Sentinel
           /\ r.m_sample_times = <<>>
           /\ r.m_rolling = m_rolling

\* Reset has just emptied a full history of an estimator whose decay factor
\* was set and whose rolling estimate an earlier query had set
C9_Witness ==
  /\ call.op = "Reset"
  /\ Len(pre.m_sample_times) = MaxSamples
  /\ pre.m_rolling # FInt(0)
  /\ pre.m_decay_factor # FInt(0)

(***************************************************************************)
(* C10: FPS called with a method that is neither CountSamples nor          *)
(* AverageIntervals ends in the fatal fault, never in a returned value, in *)
(* every state of the estimator (empty history included), and leaves       *)
(* history and the rolling estimate unchanged.                             *)
(***************************************************************************)
C10_UnknownMethodFaults ==
  (Query /\ ~KnownMethod) =>
    /\ call.outcome = "throw"
    /\ HistoryUnchanged
    /\ RollingUnchanged

(***************************************************************************)
(* Pruning, one call at a time.                                            *)
(***************************************************************************)
\* the static of the method of the call, as the call found it
PreCleanup ==
  IF call.method = CountSamples THEN pre.cleanup_CountSamples
  ELSE pre.cleanup_AverageIntervals

\* the call that has just ended reached its erase
PruneFired ==
  /\ Query
  /\ KnownMethod
  /\ ~Insufficient
  /\ CleanupFires(PreCleanup)

\* the last n elements of times
LastOf(times, n) == SubSeq(times, Len(times) - n + 1, Len(times))

\* s is what is left of t after dropping some of its oldest entries
IsSuffix(s, t) == Len(s) <= Len(t) /\ s = LastOf(t, Len(s))

(***************************************************************************)
(* C11: pruning safety, for both methods and every successful query on     *)
(* which the prune fires: the erase range [begin, begin + i - 1) is a      *)
(* valid range of history, no in-window sample of the query is removed,    *)
(* and the same query (same window, method and time) made right after the  *)
(* prune returns the same result, not the sentinel.                        *)
(***************************************************************************)
C11_PruneSafe ==
  PruneFired =>
    /\ 0 <= call.i - 1
    /\ call.i - 1 <= Len(pre.m_sample_times)
    /\ call.outcome = "return"
    /\ PreCount <= Len(m_sample_times)
    /\ LastOf(m_sample_times, PreCount) = LastOf(pre.m_sample_times, PreCount)
    /\ ~call.soft_estimate =>
         \A r \in FPSResults(call.window_seconds, FALSE, call.method) :
           r.outcome = "return" /\ r.ret = call.ret /\ r.ret # Sentinel

(***************************************************************************)
(* C14: when a prune fires, history afterwards is exactly one              *)
(* out-of-window sample (the one just before the first in-window sample,   *)
(* the boundary anchor) followed by all in-window samples in their order;  *)
(* every older sample is gone.  Stated for the prunes whose erase range is *)
(* valid (i >= 1).                                                         *)
(***************************************************************************)
C14_PruneKeepsOneAnchor ==
  (PruneFired /\ call.outcome = "return" /\ call.i >= 1) =>
    m_sample_times = LastOf(pre.m_sample_times, PreCount + 1)

(***************************************************************************)
(* C16: every FPS call leaves history unchanged or equal to a suffix of    *)
(* what it was before the call (only a run of oldest entries is removed),  *)
(* AddSample only appends one element at the tail, and SetDecayFactor does *)
(* not touch history.                                                      *)
(***************************************************************************)
C16_OnlyOldestRemoved ==
  /\ Query => IsSuffix(m_sample_times, pre.m_sample_times)
  /\ call.op = "AddSample" =>
       /\ Len(m_sample_times) = Len(pre.m_sample_times) + 1
       /\ SubSeq(m_sample_times, 1, Len(pre.m_sample_times))
            = pre.m_sample_times
  /\ call.op = "SetDecayFactor" => HistoryUnchanged

(***************************************************************************)
(* Several estimators in one process.  The clean-up blocks count in two    *)
(* function-local statics, one in each case of the switch, and a static    *)
(* belongs to the process.  Only the cadence is followed here, so an FPS   *)
(* call is told apart by the estimator it is made on, its method and       *)
(* whether it returned before the clean-up block or went through it.       *)
(***************************************************************************)
\* calls followed besides the CountSamples calls on the estimator under study
MaxOtherCalls == 2

\* static int cleanup of the case of the method
CleanupOf(method) ==
  IF method = CountSamples THEN cleanup_CountSamples
  ELSE cleanup_AverageIntervals

\* FPSEstimator::FPSEstimator() of both estimators in a fresh process
InitCadence == Init /\ cleanup_CountSamples = 0

\* an FPS call on estimator e that goes through the clean-up block of its case
QuerySucceeds(e, method) ==
  LET fires == CleanupFires(CleanupOf(method))
      studied == e = "fps" /\ method = CountSamples
  IN  /\ studied \/ nqueries < MaxOtherCalls
      /\ nqueries' = IF studied THEN nqueries ELSE nqueries + 1
      /\ cleanup_CountSamples' =
           IF method = CountSamples THEN CleanupNext(cleanup_CountSamples)
           ELSE cleanup_CountSamples
      /\ cleanup_AverageIntervals' =
           IF method = AverageIntervals
           THEN CleanupNext(cleanup_AverageIntervals)
           ELSE cleanup_AverageIntervals
      /\ successes' = [successes EXCEPT ![e] = IF fires THEN 0 ELSE @ + 1]
      /\ returned' = [estimator |-> e, succeeded |-> TRUE, erased |-> fires,
                      count |-> successes[e] + 1]
      /\ UNCHANGED <<m_sample_times, m_rolling, m_decay_factor, clock, call,
                     pre, th, mutex>>

\* an FPS call on estimator e that returns -1.f or throws: every such exit
\* lies before the clean-up block
QueryFails(e) ==
  /\ returned' = [estimator |-> e, succeeded |-> FALSE, erased |-> FALSE,
                  count |-> successes[e]]
  /\ UNCHANGED <<m_sample_times, m_rolling, m_decay_factor,
                 cleanup_CountSamples, cleanup_AverageIntervals, clock,
                 nqueries, call, pre, successes, th, mutex>>

NextCadence ==
  \/ \E e \in Estimators, method \in {CountSamples, AverageIntervals} :
       QuerySucceeds(e, method)
  \/ \E e \in Estimators : QueryFails(e)

SpecCadence == InitCadence /\ [][NextCadence]_vars

(***************************************************************************)
(* C13: an estimator erases old samples on exactly every 1000th successful *)
(* FPS call made on it since its construction or its last erase, calls of  *)
(* both methods counted together; calls on another estimator do not count; *)
(* a failed call never erases.                                             *)
(***************************************************************************)
C13_PerEstimatorCadence ==
  /\ returned.succeeded => (returned.erased <=> returned.count = CleanupPeriod)
  /\ ~returned.succeeded => ~returned.erased

(***************************************************************************)
(* Several threads on one estimator (THREAD_SAFE is defined).  A call is   *)
(* followed statement by statement: a step is one access to a member, to   *)
(* a static or to the mutex, together with the computation on locals that  *)
(* follows it.  The pc of a thread names the statement it executes next.   *)
(***************************************************************************)
\* samples the threads add to one history
MaxHistory == 2

\* window_seconds of the calls of the threads: 0.1 s
ThreadWindows == {Frac(1, 10)}

\* the process is alive: no thread has crashed it
Running == \A t \in Threads : th[t].pc # "crashed"

\* thread t is between two calls
Ready(t) == Running /\ th[t].pc = "idle"

\* thread t moves on to pc
Goto(t, pc) == th' = [th EXCEPT ![t].pc = pc]

\* std::lock_guard<std::mutex> lock(m_sample_times__mutex): blocks until free
Lock(t) == mutex = "free" /\ mutex' = t

\* the end of the scope of the lock_guard
Unlock(t) == mutex' = "free"

\* the steady clock advances while the threads run
Elapse ==
  /\ Running
  /\ clock < MaxTime
  /\ clock' = clock + 1
  /\ UNCHANGED <<m_sample_times, m_rolling, m_decay_factor,
                 cleanup_CountSamples, cleanup_AverageIntervals, nqueries,
                 call, pre, successes, returned, th, mutex>>

\* SetDecayFactor(new_decay_factor) by thread t
SetDecayFactorBy(t, new_decay_factor) ==
  /\ Ready(t)
  /\ m_decay_factor' = new_decay_factor
  /\ UNCHANGED <<m_sample_times, m_rolling, cleanup_CountSamples,
                 cleanup_AverageIntervals, clock, nqueries, call, pre,
                 successes, returned, th, mutex>>

\* AddSample() by thread t: const TIME_POINT_T now = Now();
AddSampleNow(t) ==
  /\ Ready(t)
  /\ Len(m_sample_times) < MaxHistory
  /\ th' = [th EXCEPT ![t] = [Idle EXCEPT !.pc = "add_lock", !.now = Now]]
  /\ UNCHANGED <<m_sample_times, m_rolling, m_decay_factor,
                 cleanup_CountSamples, cleanup_AverageIntervals, clock,
                 nqueries, call, pre, successes, returned, mutex>>

\* AddSample(): the lock_guard
AddSampleLock(t) ==
  /\ Running
  /\ th[t].pc = "add_lock"
  /\ Lock(t)
  /\ Goto(t, "add_push")
  /\ UNCHANGED <<m_sample_times, m_rolling, m_decay_factor,
                 cleanup_CountSamples, cleanup_AverageIntervals, clock,
                 nqueries, call, pre, successes, returned>>

\* AddSample(): m_sample_times.push_back(now); the scope ends and the call
\* returns
AddSamplePush(t) ==
  /\ Running
  /\ th[t].pc = "add_push"
  /\ m_sample_times' = PushBack(m_sample_times, th[t].now)
  /\ Unlock(t)
  /\ th' = [th EXCEPT ![t] = Idle]
  /\ UNCHANGED <<m_rolling, m_decay_factor, cleanup_CountSamples,
                 cleanup_AverageIntervals, clock, nqueries, call, pre,
                 successes, returned>>

\* Reset() by thread t is called
ResetCall(t) ==
  /\ Ready(t)
  /\ Goto(t, "reset_clear")
  /\ UNCHANGED <<m_sample_times, m_rolling, m_decay_factor,
                 cleanup_CountSamples, cleanup_AverageIntervals, clock,
                 nqueries, call, pre, successes, returned, mutex>>

\* Reset(): m_sample_times.clear(); no lock is taken
ResetClear(t) ==
  /\ Running
  /\ th[t].pc = "reset_clear"
  /\ m_sample_times' = Clear(m_sample_times)
  /\ th' = [th EXCEPT ![t] = Idle]
  /\ UNCHANGED <<m_rolling, m_decay_factor, cleanup_CountSamples,
                 cleanup_AverageIntervals, clock, nqueries, call, pre,
                 successes, returned, mutex>>

\* no time point: the read that kills the process
Segfault == -1

\* m_sample_times[i] as a thread reads it: the element, or, when i is not an
\* index of the vector as it is now, undefined behaviour, which yields any
\* value or kills the process
Read(times, i) ==
  IF 0 <= i /\ i < Len(times) THEN {At(times, i)}
  ELSE GarbageTimes \cup {Segfault}

\* the process dies in thread t
Crash(t) == Goto(t, "crashed")

\* FPS(window_seconds, soft_estimate, method) by thread t is called; the value
\* the call returns is not followed here, and soft_estimate only selects it
FPSCall(t, window_seconds, method) ==
  /\ Ready(t)
  /\ nqueries < MaxQueries
  /\ nqueries' = nqueries + 1
  /\ th' = [th EXCEPT ![t] = [Idle EXCEPT !.pc = "fps_size",
                                          !.window_seconds = window_seconds,
                                          !.method = method]]
  /\ UNCHANGED <<m_sample_times, m_rolling, m_decay_factor,
                 cleanup_CountSamples, cleanup_AverageIntervals, clock, call,
                 pre, successes, returned, mutex>>

\* if (m_sample_times.size() <= 0) return -1.f; switch (method): the default
\* case throws
FPSSize(t) ==
  /\ Running
  /\ th[t].pc = "fps_size"
  /\ IF EmptyHistory \/ th[t].method = UnknownMethod
     THEN th' = [th EXCEPT ![t] = Idle]
     ELSE Goto(t, "fps_index")
  /\ UNCHANGED <<m_sample_times, m_rolling, m_decay_factor,
                 cleanup_CountSamples, cleanup_AverageIntervals, clock,
                 nqueries, call, pre, successes, returned, mutex>>

\* int i = m_sample_times.size()-1; const TIME_POINT_T now = Now();
FPSIndex(t) ==
  /\ Running
  /\ th[t].pc = "fps_index"
  /\ th' = [th EXCEPT ![t].pc = "fps_lock",
                      ![t].i = Len(m_sample_times) - 1,
                      ![t].now = Now]
  /\ UNCHANGED <<m_sample_times, m_rolling, m_decay_factor,
                 cleanup_CountSamples, cleanup_AverageIntervals, clock,
                 nqueries, call, pre, successes, returned, mutex>>

\* the lock_guard of the scan
FPSLock(t) ==
  /\ Running
  /\ th[t].pc = "fps_lock"
  /\ Lock(t)
  /\ th' = [th EXCEPT ![t].pc = IF th[t].method = AverageIntervals
                                THEN "fps_youngest" ELSE "fps_scan",
                      ![t].top = Len(m_sample_times) - 1]
  /\ UNCHANGED <<m_sample_times, m_rolling, m_decay_factor,
                 cleanup_CountSamples, cleanup_AverageIntervals, clock,
                 nqueries, call, pre, successes, returned>>

\* youngest_sample = m_sample_times[i];
FPSYoungest(t) ==
  /\ Running
  /\ th[t].pc = "fps_youngest"
  /\ \E v \in Read(m_sample_times, th[t].i) :
       IF v = Segfault THEN Crash(t)
       ELSE th' = [th EXCEPT ![t].pc = "fps_scan", ![t].youngest_sample = v]
  /\ UNCHANGED <<m_sample_times, m_rolling, m_decay_factor,
                 cleanup_CountSamples, cleanup_AverageIntervals, clock,
                 nqueries, call, pre, successes, returned, mutex>>

\* the thread after the scan: the lock is gone and the failure test of the
\* method decides between return -1.f and the estimate
AfterScan(t) ==
  IF th[t].method = CountSamples
  THEN IF CountSamplesFails(th[t].i) THEN Idle
       ELSE [th[t] EXCEPT !.pc = "fps_cleanup_load", !.now = 0, !.top = 0,
                          !.fps_estimate =
                            CountEstimate(th[t].samples, th[t].window_seconds)]
  ELSE IF AverageIntervalsFails(th[t].i) THEN Idle
       ELSE [th[t] EXCEPT !.pc = "fps_interval", !.now = 0, !.top = 0]

\* one pass of for (; i >= 0; --i) { if (...) break; ++samples; }
FPSScan(t) ==
  /\ Running
  /\ th[t].pc = "fps_scan"
  /\ IF th[t].i >= 0
     THEN \E v \in Read(m_sample_times, th[t].i) :
            IF v = Segfault THEN Crash(t) /\ UNCHANGED mutex
            ELSE IF OutOfWindow(<<v>>, th[t].now, th[t].window_seconds, 0)
            THEN th' = [th EXCEPT ![t] = AfterScan(t)] /\ Unlock(t)
            ELSE /\ th' = [th EXCEPT ![t].i = @ - 1, ![t].samples = @ + 1]
                 /\ UNCHANGED mutex
     ELSE th' = [th EXCEPT ![t] = AfterScan(t)] /\ Unlock(t)
  /\ UNCHANGED <<m_sample_times, m_rolling, m_decay_factor,
                 cleanup_CountSamples, cleanup_AverageIntervals, clock,
                 nqueries, call, pre, successes, returned>>

\* float average_interval = NanosecondsBetween(youngest_sample,
\* m_sample_times[i]) / samples; float fps_estimate = 1e6f / average_interval;
FPSInterval(t) ==
  /\ Running
  /\ th[t].pc = "fps_interval"
  /\ \E v \in Read(m_sample_times, th[t].i) :
       IF v = Segfault THEN Crash(t)
       ELSE th' = [th EXCEPT
                     ![t].pc = "fps_cleanup_load",
                     ![t].youngest_sample = 0,
                     ![t].fps_estimate =
                       FpsEstimate(AverageInterval(<<v>>, th[t].youngest_sample,
                                                   0, th[t].samples))]
  /\ UNCHANGED <<m_sample_times, m_rolling, m_decay_factor,
                 cleanup_CountSamples, cleanup_AverageIntervals, clock,
                 nqueries, call, pre, successes, returned, mutex>>

\* ++cleanup: the static is loaded
FPSCleanupLoad(t) ==
  /\ Running
  /\ th[t].pc = "fps_cleanup_load"
  /\ th' = [th EXCEPT ![t].pc = "fps_cleanup_store",
                      ![t].cleanup = CleanupOf(th[t].method)]
  /\ UNCHANGED <<m_sample_times, m_rolling, m_decay_factor,
                 cleanup_CountSamples, cleanup_AverageIntervals, clock,
                 nqueries, call, pre, successes, returned, mutex>>

\* ++cleanup: the static is stored; if (... >= 1000) { cleanup = 0; ...
FPSCleanupStore(t) ==
  /\ Running
  /\ th[t].pc = "fps_cleanup_store"
  /\ cleanup_CountSamples' =
       IF th[t].method = CountSamples THEN CleanupNext(th[t].cleanup)
       ELSE cleanup_CountSamples
  /\ cleanup_AverageIntervals' =
       IF th[t].method = AverageIntervals THEN CleanupNext(th[t].cleanup)
       ELSE cleanup_AverageIntervals
  /\ th' = [th EXCEPT ![t].pc = IF CleanupFires(th[t].cleanup)
                                THEN "fps_erase_lock" ELSE "fps_rolling_load",
                      ![t].cleanup = 0,
                      ![t].i = IF CleanupFires(th[t].cleanup) THEN @ ELSE 0]
  /\ UNCHANGED <<m_sample_times, m_rolling, m_decay_factor, clock, nqueries,
                 call, pre, successes, returned, mutex>>

\* the lock_guard of the erase
FPSEraseLock(t) ==
  /\ Running
  /\ th[t].pc = "fps_erase_lock"
  /\ Lock(t)
  /\ Goto(t, "fps_erase")
  /\ UNCHANGED <<m_sample_times, m_rolling, m_decay_factor,
                 cleanup_CountSamples, cleanup_AverageIntervals, clock,
                 nqueries, call, pre, successes, returned>>

\* begin() <= begin()+i-1 <= end(): the range handed to erase is one of the
\* vector as it is now
ValidRange(times, i) == 0 <= i - 1 /\ i - 1 <= Len(times)

\* m_sample_times.erase(m_sample_times.begin(), m_sample_times.begin()+i-1);
\* the scope ends.  A range that is not one of the vector is undefined
\* behaviour: the process dies, or the vector is left as EraseUndefined says
\* (range ending before begin()) or alone (range ending behind end()).
FPSErase(t) ==
  /\ Running
  /\ th[t].pc = "fps_erase"
  /\ \/ /\ ValidRange(m_sample_times, th[t].i)
        /\ m_sample_times' = Erase(m_sample_times, th[t].i)
        /\ th' = [th EXCEPT ![t].pc = "fps_rolling_load", ![t].i = 0]
        /\ Unlock(t)
     \/ /\ ~ValidRange(m_sample_times, th[t].i)
        /\ m_sample_times' \in
             IF th[t].i <= 0 THEN EraseUndefined(m_sample_times)
             ELSE {m_sample_times}
        /\ th' = [th EXCEPT ![t].pc = "fps_rolling_load", ![t].i = 0]
        /\ Unlock(t)
     \/ /\ ~ValidRange(m_sample_times, th[t].i)
        /\ Crash(t)
        /\ UNCHANGED <<m_sample_times, mutex>>
  /\ UNCHANGED <<m_rolling, m_decay_factor, cleanup_CountSamples,
                 cleanup_AverageIntervals, clock, nqueries, call, pre,
                 successes, returned>>

\* the value thread t computes for m_rolling from the members decay, rolling
RollingOf(t, decay, rolling) ==
  IF th[t].method = CountSamples
  THEN RollingCountSamples(decay, rolling, th[t].samples,
                           th[t].window_seconds)
  ELSE RollingAverageIntervals(decay, rolling, th[t].fps_estimate)

\* m_decay_factor * m_rolling + (1.f-m_decay_factor) * ...: the members are
\* loaded
FPSRollingLoad(t) ==
  /\ Running
  /\ th[t].pc = "fps_rolling_load"
  /\ th' = [th EXCEPT ![t].pc = "fps_rolling_store",
                      ![t].decay = m_decay_factor,
                      ![t].rolling = m_rolling]
  /\ UNCHANGED <<m_sample_times, m_rolling, m_decay_factor,
                 cleanup_CountSamples, cleanup_AverageIntervals, clock,
                 nqueries, call, pre, successes, returned, mutex>>

\* m_rolling = ...: the new value is stored, and the call returns
FPSRollingStore(t) ==
  /\ Running
  /\ th[t].pc = "fps_rolling_store"
  /\ m_rolling' = RollingOf(t, th[t].decay, th[t].rolling)
  /\ th' = [th EXCEPT ![t] = Idle]
  /\ UNCHANGED <<m_sample_times, m_decay_factor, cleanup_CountSamples,
                 cleanup_AverageIntervals, clock, nqueries, call, pre,
                 successes, returned, mutex>>

NextThreads ==
  \/ Elapse
  \/ \E t \in Threads, d \in DecayFactors : SetDecayFactorBy(t, d)
  \/ \E t \in Threads : AddSampleNow(t)
  \/ \E t \in Threads : AddSampleLock(t)
  \/ \E t \in Threads : AddSamplePush(t)
  \/ \E t \in Threads : ResetCall(t)
  \/ \E t \in Threads : ResetClear(t)
  \/ \E t \in Threads, w \in ThreadWindows, method \in Methods :
       FPSCall(t, w, method)
  \/ \E t \in Threads : FPSSize(t)
  \/ \E t \in Threads : FPSIndex(t)
  \/ \E t \in Threads : FPSLock(t)
  \/ \E t \in Threads : FPSYoungest(t)
  \/ \E t \in Threads : FPSScan(t)
  \/ \E t \in Threads : FPSInterval(t)
  \/ \E t \in Threads : FPSCleanupLoad(t)
  \/ \E t \in Threads : FPSCleanupStore(t)
  \/ \E t \in Threads : FPSEraseLock(t)
  \/ \E t \in Threads : FPSErase(t)
  \/ \E t \in Threads : FPSRollingLoad(t)
  \/ \E t \in Threads : FPSRollingStore(t)

SpecThreads == Init /\ [][NextThreads]_vars

(***************************************************************************)
(* Vocabulary of the properties of the threads                             *)
(***************************************************************************)
\* the statement thread t executes next reads or writes m_sample_times
Accesses(t) ==
  th[t].pc \in {"add_push", "reset_clear", "fps_size", "fps_index",
                "fps_youngest", "fps_scan", "fps_interval", "fps_erase"}

\* thread t is inside the locked scope of its scan
Scanning(t) == th[t].pc \in {"fps_youngest", "fps_scan"}

\* thread t is at a statement that takes the mutex
Acquiring(t) == th[t].pc \in {"add_lock", "fps_lock", "fps_erase_lock"}

\* thread t is at a statement of a locked scope
InScope(t) ==
  th[t].pc \in {"add_push", "fps_youngest", "fps_scan", "fps_erase"}

\* thread t ends a statement at pc in this step
Leaves(t, pc) == th[t].pc = pc /\ th'[t].pc # pc

(***************************************************************************)
(* C12: with threads calling AddSample, FPS and Reset on one estimator, a  *)
(* thread that is about to read the size of history, read an element,      *)
(* push_back, erase or clear holds the mutex of the estimator.             *)
(***************************************************************************)
C12_HistoryUnderMutex == \A t \in Threads : Accesses(t) => mutex = t

(***************************************************************************)
(* C15: in every reachable state, also with several threads calling        *)
(* AddSample, history is in non-decreasing order of time.                  *)
(***************************************************************************)
C15_HistorySorted ==
  \A k \in 1..(Len(m_sample_times) - 1) :
    m_sample_times[k] <= m_sample_times[k + 1]

(***************************************************************************)
(* C17: the updates of concurrent successful FPS calls are serialized:     *)
(* every store to the pruning counter advances the counter by one from the *)
(* value it replaces, and every store to the rolling estimate leaves the   *)
(* update of the call applied to the value it replaces, so the final       *)
(* values are those of the calls made one after the other.                 *)
(***************************************************************************)
C17_UpdatesSerialized ==
  [][\A t \in Threads :
       /\ Leaves(t, "fps_cleanup_store") =>
            IF th[t].method = CountSamples
            THEN cleanup_CountSamples' = CleanupNext(cleanup_CountSamples)
            ELSE cleanup_AverageIntervals'
                   = CleanupNext(cleanup_AverageIntervals)
       /\ Leaves(t, "fps_rolling_store") =>
            m_rolling' = RollingOf(t, th[t].decay, m_rolling)]_vars

(***************************************************************************)
(* C18: the backward scan of a query starts at or behind the last sample   *)
(* history holds when the scan takes the lock (top), so no sample that is  *)
(* present then is skipped; youngest_sample is the element the scan starts *)
(* at, hence the most recent sample.                                       *)
(***************************************************************************)
C18_ScanCoversHistory ==
  \A t \in Threads : Scanning(t) => th[t].top <= th[t].i + th[t].samples

C20_IndicesInBounds ==
  \A t \in Threads :
    /\ th[t].pc \in {"fps_youngest", "fps_interval"} =>
         (0 <= th[t].i /\ th[t].i < Len(m_sample_times))
    /\ (th[t].pc = "fps_scan" /\ th[t].i >= 0) =>
         th[t].i < Len(m_sample_times)
    /\ th[t].pc = "fps_erase" => ValidRange(m_sample_times, th[t].i)
====
